---- MODULE Spec2Model ----
(***************************************************************************)
(* Model of game_generator.py: the script loads (creating the games        *)
(* directory and unlinking the output file), then drives one run of        *)
(* GameGenerator.run: developer agent call, QA agent call, file write.     *)
(* The file system outlives the process, so successive executions of the   *)
(* script are modelled as successive loads over the same output path.      *)
(*                                                                         *)
(* A text (str) is a sequence of tokens.  A Python value that may be       *)
(* absent is a record tagged with its kind or type.                        *)
(***************************************************************************)
EXTENDS Integers, Sequences, FiniteSets, TLC

VARIABLES
    file,         \* content of game_output_path on disk
    pc,           \* position of the script / of the generator body
    game_output,  \* run(): result of self.game_developer.run
    game_code,    \* run(): local game_code
    qa_input,     \* run(): json.dumps(qa_input, indent=2) as passed to the QA agent
    qa_output,    \* run(): result of self.qa_agent.run
    yielded,      \* RunResponse contents yielded by run() and printed by the loop
    raised,       \* whether run() raised the QA exception
    trace,        \* the external actions of this run, in order
    prev          \* how the previous execution of the script ended

vars == <<file, pc, game_output, game_code, qa_input, qa_output, yielded, raised, trace, prev>>

\* Longest text, in tokens, the agents return.
MaxTextLen == 1

Tokens == {"<html>...</html>", "Use W/S"}

Texts == UNION {[1..n -> Tokens] : n \in 0..MaxTextLen}

\* ---------------------------------------------------------------- values

None == [kind |-> "None"]

Unset == [kind |-> "unset"]

Unbound == [bound |-> FALSE]

Bound(v) == [bound |-> TRUE, value |-> v]

NoFile == [exists |-> FALSE]

FileWith(data) == [exists |-> TRUE, data |-> data]

RunResponse(content) == [kind |-> "RunResponse", content |-> content]

NoneContent == [type |-> "NoneType"]

StrContent(t) == [type |-> "str", value |-> t]

GameOutput(r, c, i) == [type |-> "GameOutput", reasoning |-> r, code |-> c, instructions |-> i]

QAOutput(r, c) == [type |-> "QAOutput", reasoning |-> r, correct |-> c]

Reasoning == <<"because">>

GameOutputs == {GameOutput(Reasoning, c, i) : c \in Texts, i \in Texts}

QAOutputs == {QAOutput(Reasoning, b) : b \in BOOLEAN}

StrContents == {StrContent(t) : t \in Texts}

\* What self.game_developer.run can hand back.
DevResponses ==
    {None} \cup {RunResponse(c) : c \in {NoneContent} \cup StrContents \cup GameOutputs \cup QAOutputs}

\* What self.qa_agent.run can hand back.
QAResponses ==
    {None} \cup {RunResponse(c) : c \in {NoneContent} \cup StrContents \cup QAOutputs
                                        \cup {GameOutput(Reasoning, <<>>, <<>>)}}

game_description == <<"Create an enhanced Pong game">>

DevFailMsg == <<"Game generation failed (developer agent).">>

QAFailMsg == <<"Game generation failed (QA agent).">>

\* Python truth value of a response content.
Truthy(content) ==
    CASE content.type = "NoneType" -> FALSE
      [] content.type = "str" -> content.value # <<>>
      [] OTHER -> TRUE

\* game_output and game_output.content and isinstance(game_output.content, GameOutput)
DevOk(resp) ==
    /\ resp.kind = "RunResponse"
    /\ Truthy(resp.content)
    /\ resp.content.type = "GameOutput"

\* qa_output and qa_output.content and isinstance(qa_output.content, QAOutput)
QAOk(resp) ==
    /\ resp.kind = "RunResponse"
    /\ Truthy(resp.content)
    /\ resp.content.type = "QAOutput"

\* json.dumps({"game_description": ..., "game_code": ...}, indent=2)
JsonDumps(description, code) ==
    [json |-> "object",
     members |-> << <<"game_description", description>>, <<"game_code", code>> >>]

\* Path.write_text: create or truncate, then write data.
WriteText(old, data) == FileWith(data)

\* Path.unlink(missing_ok=True)
Unlink(old) == NoFile

Terminal == {"Persisted", "Rejected", "GenerationFailed", "ReviewFailed"}

NoPrev == [state |-> "none", game_output |-> Unset, file |-> NoFile]

\* ---------------------------------------------------------------- script

Init ==
    /\ file = NoFile
    /\ pc = "Unloaded"
    /\ game_output = Unset
    /\ game_code = Unbound
    /\ qa_input = Unset
    /\ qa_output = Unset
    /\ yielded = <<>>
    /\ raised = FALSE
    /\ trace = <<>>
    /\ prev = NoPrev

\* Mutant of Load: the output file of an earlier execution is left in place.
LoadKeep ==
    /\ pc = "Unloaded"
    /\ pc' = "Loaded"
    /\ UNCHANGED <<file, game_output, game_code, qa_input, qa_output, yielded, raised, trace, prev>>

\* Module load: mkdir of the games directory, unlink of the output file.
Load ==
    /\ pc = "Unloaded"
    /\ file' = Unlink(file)
    /\ pc' = "Loaded"
    /\ UNCHANGED <<game_output, game_code, qa_input, qa_output, yielded, raised, trace, prev>>

\* generator = GameGenerator(); the for loop enters run().
Invoke ==
    /\ pc = "Loaded"
    /\ pc' = "Start"
    /\ UNCHANGED <<file, game_output, game_code, qa_input, qa_output, yielded, raised, trace, prev>>

\* self.game_developer.run(game_description) is called and blocks.
DevCall ==
    /\ pc = "Start"
    /\ trace' = Append(trace, "dev_call")
    /\ pc' = "DevCalling"
    /\ UNCHANGED <<file, game_output, game_code, qa_input, qa_output, yielded, raised, prev>>

\* Mutant of DevReturn: the failure branch yields but does not return.
DevReturnNoReturn(resp) ==
    /\ pc = "DevCalling"
    /\ game_output' = resp
    /\ pc' = "Generated"
    /\ IF DevOk(resp)
          THEN /\ game_code' = Bound(resp.content.code)
               /\ UNCHANGED yielded
          ELSE /\ yielded' = Append(yielded, DevFailMsg)
               /\ UNCHANGED game_code
    /\ UNCHANGED <<file, qa_input, qa_output, raised, trace, prev>>

\* The developer call returns resp; the result is checked.
DevReturn(resp) ==
    /\ pc = "DevCalling"
    /\ game_output' = resp
    /\ IF DevOk(resp)
          THEN /\ game_code' = Bound(resp.content.code)
               /\ pc' = "Generated"
               /\ UNCHANGED yielded
          ELSE /\ yielded' = Append(yielded, DevFailMsg)
               /\ pc' = "GenerationFailed"
               /\ UNCHANGED game_code
    /\ UNCHANGED <<file, qa_input, qa_output, raised, trace, prev>>

\* Mutant of QACall: the code is written before it is reviewed.
QACallWriteFirst ==
    /\ pc = "Generated"
    /\ file' = WriteText(file, game_code.value)
    /\ qa_input' = JsonDumps(game_description, game_code)
    /\ trace' = Append(Append(trace, "write"), "qa_call")
    /\ pc' = "QACalling"
    /\ UNCHANGED <<game_output, game_code, qa_output, yielded, raised, prev>>

\* qa_input is serialised and self.qa_agent.run is called and blocks.
QACall ==
    /\ pc = "Generated"
    /\ qa_input' = JsonDumps(game_description, game_code)
    /\ trace' = Append(trace, "qa_call")
    /\ pc' = "QACalling"
    /\ UNCHANGED <<file, game_output, game_code, qa_output, yielded, raised, prev>>

\* Mutant of QAReturn: a malformed review is treated as a rejection.
QAReturnRaise(resp) ==
    /\ pc = "QACalling"
    /\ qa_output' = resp
    /\ IF QAOk(resp)
          THEN /\ pc' = "Reviewed"
               /\ UNCHANGED raised
          ELSE /\ raised' = TRUE
               /\ pc' = "Rejected"
    /\ UNCHANGED <<file, game_output, game_code, qa_input, yielded, trace, prev>>

\* Mutant of QAReturn: a malformed review sends the run back to call QA again.
QAReturnRetry(resp) ==
    /\ pc = "QACalling"
    /\ qa_output' = resp
    /\ pc' = IF QAOk(resp) THEN "Reviewed" ELSE "Generated"
    /\ UNCHANGED <<file, game_output, game_code, qa_input, yielded, raised, trace, prev>>

\* The QA call returns resp; the result is checked.
QAReturn(resp) ==
    /\ pc = "QACalling"
    /\ qa_output' = resp
    /\ IF QAOk(resp)
          THEN /\ pc' = "Reviewed"
               /\ UNCHANGED yielded
          ELSE /\ yielded' = Append(yielded, QAFailMsg)
               /\ pc' = "ReviewFailed"
    /\ UNCHANGED <<file, game_output, game_code, qa_input, raised, trace, prev>>

\* Mutant of Reject: the file is written before the verdict is looked at.
RejectAfterWrite ==
    /\ pc = "Reviewed"
    /\ ~qa_output.content.correct
    /\ file' = WriteText(file, game_code.value)
    /\ trace' = Append(trace, "write")
    /\ raised' = TRUE
    /\ pc' = "Rejected"
    /\ UNCHANGED <<game_output, game_code, qa_input, qa_output, yielded, prev>>

\* Mutant of Reject: a rejection is reported as a value, like the other failures.
RejectAsValue ==
    /\ pc = "Reviewed"
    /\ ~qa_output.content.correct
    /\ yielded' = Append(yielded, QAFailMsg)
    /\ pc' = "Rejected"
    /\ UNCHANGED <<file, game_output, game_code, qa_input, qa_output, raised, trace, prev>>

\* not qa_output.content.correct: raise Exception.
Reject ==
    /\ pc = "Reviewed"
    /\ ~qa_output.content.correct
    /\ raised' = TRUE
    /\ pc' = "Rejected"
    /\ UNCHANGED <<file, game_output, game_code, qa_input, qa_output, yielded, trace, prev>>

\* Mutant of WriteFile: the instructions are written in place of the code.
WriteFileInstructions ==
    /\ pc = "Reviewed"
    /\ qa_output.content.correct
    /\ file' = WriteText(file, game_output.content.instructions)
    /\ trace' = Append(trace, "write")
    /\ pc' = "Written"
    /\ UNCHANGED <<game_output, game_code, qa_input, qa_output, yielded, raised, prev>>

\* Mutant of WriteFile: a result already persisted by the last execution is not written again.
WriteFileUnlessCached ==
    /\ pc = "Reviewed"
    /\ qa_output.content.correct
    /\ IF prev.state = "Persisted" /\ prev.game_output = game_output
          THEN UNCHANGED <<file, trace>>
          ELSE /\ file' = WriteText(file, game_code.value)
               /\ trace' = Append(trace, "write")
    /\ pc' = "Written"
    /\ UNCHANGED <<game_output, game_code, qa_input, qa_output, yielded, raised, prev>>

\* game_output_path.write_text(game_code)
WriteFile ==
    /\ pc = "Reviewed"
    /\ qa_output.content.correct
    /\ file' = WriteText(file, game_code.value)
    /\ trace' = Append(trace, "write")
    /\ pc' = "Written"
    /\ UNCHANGED <<game_output, game_code, qa_input, qa_output, yielded, raised, prev>>

\* Mutant of YieldSuccess: the reasoning is reported in place of the instructions.
YieldSuccessReasoning ==
    /\ pc = "Written"
    /\ yielded' = Append(yielded, game_output.content.reasoning)
    /\ pc' = "Persisted"
    /\ UNCHANGED <<file, game_output, game_code, qa_input, qa_output, raised, trace, prev>>

\* yield RunResponse(content=game_output.content.instructions); the body then ends.
YieldSuccess ==
    /\ pc = "Written"
    /\ yielded' = Append(yielded, game_output.content.instructions)
    /\ pc' = "Persisted"
    /\ UNCHANGED <<file, game_output, game_code, qa_input, qa_output, raised, trace, prev>>

\* The loop ends (or the exception propagates) and the process exits; the file stays.
Exit ==
    /\ pc \in Terminal
    /\ prev' = [state |-> pc, game_output |-> game_output, file |-> file]
    /\ pc' = "Unloaded"
    /\ game_output' = Unset
    /\ game_code' = Unbound
    /\ qa_input' = Unset
    /\ qa_output' = Unset
    /\ yielded' = <<>>
    /\ raised' = FALSE
    /\ trace' = <<>>
    /\ UNCHANGED file

\* The steps of the generator body.
RunStep ==
    \/ DevCall
    \/ \E resp \in DevResponses : DevReturn(resp)
    \/ QACall
    \/ \E resp \in QAResponses : QAReturn(resp)
    \/ Reject
    \/ WriteFile
    \/ YieldSuccess

Next ==
    \/ Load
    \/ Invoke
    \/ DevCall
    \/ \E resp \in DevResponses : DevReturn(resp)
    \/ QACall
    \/ \E resp \in QAResponses : QAReturn(resp)
    \/ Reject
    \/ WriteFile
    \/ YieldSuccess
    \/ Exit

Spec == Init /\ [][Next]_vars

\* The body is sequential code and each agent call returns: a step that can be taken is taken.
FairSpec == Spec /\ WF_vars(RunStep)

\* ---------------------------------------------------------------- properties

Count(e) == Cardinality({i \in 1..Len(trace) : trace[i] = e})

Pos(e) == CHOOSE i \in 1..Len(trace) : trace[i] = e

Written == Count("write") > 0

InRun == pc \notin {"Unloaded", "Loaded"}

Accepted == QAOk(qa_output) /\ qa_output.content.correct

\* C1: the output file is written in a run exactly when the review returned a
\* valid QAOutput with correct = True; every other outcome ends with no write,
\* and whatever the run has put on disk is the whole generated code.
C1_WriteIffAccepted ==
    /\ Written => Accepted
    /\ (pc \in Terminal /\ Accepted) => Count("write") = 1
    /\ (pc \in Terminal /\ ~Accepted) => (~Written /\ file = NoFile)
    /\ (InRun /\ file # NoFile) => (Written /\ file = FileWith(game_code.value))

C1_Witness == pc = "Persisted" /\ file # NoFile /\ Accepted

\* C2: for every valid GameOutput g, the empty code included, paired with an
\* accepting review, the file after the run holds exactly g.code.
C2_FileEqualsCode ==
    (pc = "Persisted" /\ DevOk(game_output) /\ Accepted)
        => file = FileWith(game_output.content.code)

C2_Witness ==
    /\ pc = "Persisted"
    /\ game_output.content.code = <<>>
    /\ game_output.content.instructions # <<>>
    /\ file = FileWith(<<>>)

\* C3: a valid review with correct = False ends the run in Rejected with the
\* exception raised, nothing yielded and nothing written, whatever was
\* generated; GenerationFailed and ReviewFailed end with one yielded value and
\* no exception.
C3_RejectedRaises ==
    /\ (pc \in Terminal /\ QAOk(qa_output) /\ ~qa_output.content.correct)
          => (pc = "Rejected" /\ raised /\ yielded = <<>> /\ ~Written /\ file = NoFile)
    /\ pc = "Rejected" => (QAOk(qa_output) /\ ~qa_output.content.correct)
    /\ pc \in {"GenerationFailed", "ReviewFailed"} => (~raised /\ Len(yielded) = 1)
    /\ raised => pc = "Rejected"

C3_Witness ==
    /\ pc = "Rejected"
    /\ raised
    /\ game_output.content.code # <<>>
    /\ prev.state \in {"GenerationFailed", "ReviewFailed"}

\* C4: when the developer result is absent, empty or not a GameOutput, the QA
\* agent is never called, the generation-failure message is yielded as a value
\* and no file is written.
C4_GenerationFailureStops ==
    (game_output # Unset /\ ~DevOk(game_output))
        => /\ pc = "GenerationFailed"
           /\ Count("qa_call") = 0
           /\ qa_output = Unset
           /\ yielded = <<DevFailMsg>>
           /\ ~raised
           /\ ~Written
           /\ file = NoFile

C4_Witness ==
    /\ pc = "GenerationFailed"
    /\ game_output.kind = "RunResponse"
    /\ game_output.content.type = "str"
    /\ Truthy(game_output.content)

\* C5: after a run whose review returned correct = False no file exists at the
\* output path, also when an earlier execution passed review and wrote the file.
C5_RejectedNoFile == pc = "Rejected" => file = NoFile

C5_Witness == pc = "Rejected" /\ prev.state = "Persisted" /\ prev.file # NoFile

\* C6: when generation succeeded and the review result is absent, empty or not
\* a QAOutput, the run ends in ReviewFailed: the review-failure message is
\* yielded, nothing is raised or written and neither agent is called again.
C6_ReviewFailureStops ==
    (qa_output # Unset /\ ~QAOk(qa_output))
        => /\ pc = "ReviewFailed"
           /\ DevOk(game_output)
           /\ yielded = <<QAFailMsg>>
           /\ ~raised
           /\ ~Written
           /\ file = NoFile
           /\ Count("dev_call") = 1
           /\ Count("qa_call") = 1

C6_Witness ==
    /\ pc = "ReviewFailed"
    /\ qa_output.kind = "RunResponse"
    /\ qa_output.content.type = "GameOutput"

\* C7: within a run the developer call, the QA call and the file write happen
\* in that order and at most once each; QA is called only after a valid
\* developer result and the file is written only after QA has returned.
C7_StrictOrder ==
    /\ Count("dev_call") <= 1
    /\ Count("qa_call") <= 1
    /\ Count("write") <= 1
    /\ Count("qa_call") = 1
          => /\ Count("dev_call") = 1
             /\ Pos("dev_call") < Pos("qa_call")
             /\ DevOk(game_output)
    /\ Count("write") = 1
          => /\ Count("qa_call") = 1
             /\ Pos("qa_call") < Pos("write")
             /\ qa_output # Unset

C7_Witness == trace = <<"dev_call", "qa_call", "write">>

\* C8: two successive executions with the same accepted GameOutput: the second
\* writes the file again and leaves the content the first one left.
C8_Idempotent ==
    (pc = "Persisted" /\ prev.state = "Persisted" /\ prev.game_output = game_output)
        => (Written /\ file = prev.file)

C8_Witness ==
    /\ pc = "Persisted"
    /\ prev.state = "Persisted"
    /\ prev.game_output = game_output
    /\ file = FileWith(<<"<html>...</html>">>)

\* C9: only a persisted run reports the instructions of its own GameOutput;
\* the failed runs report their fixed message whatever the instructions are;
\* nothing is reported as success before the file is on disk.
C9_ReportedContent ==
    /\ pc = "Persisted"
          => /\ yielded = <<game_output.content.instructions>>
             /\ file = FileWith(game_code.value)
    /\ pc = "GenerationFailed" => yielded = <<DevFailMsg>>
    /\ pc = "ReviewFailed" => yielded = <<QAFailMsg>>
    /\ yielded # <<>>
          => \/ pc = "Persisted" /\ Written
             \/ pc \in {"GenerationFailed", "ReviewFailed"}

C9_Witness ==
    /\ pc = "Persisted"
    /\ yielded = <<<<"Use W/S">>>>
    /\ file = FileWith(<<"<html>...</html>">>)

\* The transitions of the run's state machine.
Step(from, to) == pc = from /\ pc' = to

C10_Transitions ==
    \/ Step("Start", "DevCalling")
    \/ Step("DevCalling", "Generated")
    \/ Step("DevCalling", "GenerationFailed")
    \/ Step("Generated", "QACalling")
    \/ Step("QACalling", "Reviewed")
    \/ Step("QACalling", "ReviewFailed")
    \/ Step("Reviewed", "Written")
    \/ Step("Written", "Persisted")
    \/ Step("Reviewed", "Rejected")

C10_Settled ==
    pc \in Terminal
        => /\ pc' = "Unloaded"
           /\ file' = file
           /\ prev'.state = pc

\* C10: as each agent call returns, every run that starts reaches a terminal
\* state, through the transitions Start, Generated, Reviewed only, and a run
\* in a terminal state calls no agent, writes nothing and yields nothing more.
C10_Terminates ==
    /\ (pc = "Start") ~> (pc \in Terminal)
    /\ [][(InRun /\ pc \notin Terminal) => C10_Transitions]_vars
    /\ [][C10_Settled]_vars

C10_Witness == pc \in Terminal /\ prev.state \in Terminal /\ prev.state # pc

====
